---- MODULE Spec2Model ----
(***************************************************************************)
(* WorkflowService (packages/cli/src/workflows/workflow.service.ts):       *)
(* update, delete and findPinnedTrigger, over the workflow repository, the *)
(* tag mappings, the workflow history, the executions with their binary    *)
(* data, and the in-memory registry of active workflows.                   *)
(*                                                                         *)
(* One workflow (workflowId) is stored.  Every call of the service is a    *)
(* process p whose position pc[p] moves from one await of the handler to   *)
(* the next; log[p] records, in order, the effects the call has had.       *)
(***************************************************************************)
EXTENDS Integers, Sequences, FiniteSets

\* ------------------------------------------------------------------ bounds

\* Calls of the service started in one behaviour.
MaxCalls == 2

\* ---------------------------------------------------------------- constants

\* workflow.versionId === '' (the empty string), line 241.
EmptyVersionId == 0
\* workflow.versionId === undefined: the payload has no versionId key.
UndefinedVersionId == EmptyVersionId - 1
\* The versionId the workflow is stored with before the first call.
InitialVersionId == EmptyVersionId + 1
\* BadRequestError(message, 100): the errorCode of the version conflict.
VersionConflictCode == 100
\* BadRequestError(message): no errorCode given.
NoErrorCode == 0

\* The calls of the service are made one at a time by one caller.
Procs == {"p1"}

workflowId == "w1"

\* admin holds the global scopes workflow:update and workflow:delete and has
\* no sharing record; alice has a sharing record with role owner, bob one with
\* role editor, eve none.
Users == {"admin", "alice", "bob", "eve"}

hasGlobalScope(user, scope) == user = "admin"

SharingRole(user) ==
  CASE user = "alice" -> "owner"
    [] user = "bob" -> "editor"
    [] OTHER -> "none"

TagIds == {"t1", "t2"}

ExecutionIds == {"e1", "e2"}

\* The keys a payload of update may carry besides id.
PayloadKeys == {"versionId", "active", "name", "settings", "meta"}

\* omit(workflow, ['id', 'versionId', 'active']), line 250.
OmittedKeys == {"id", "versionId", "active"}

\* pick(workflow, [...]), lines 309-318 (nodes, connections, staticData and
\* pinData are copied like name; the model carries name and settings).
PickedKeys == {"name", "active", "settings", "versionId"}

\* Errors an external hook or activeWorkflowRunner.add may throw.
PlainError == [type |-> "Error", message |-> "m-plain", description |-> ""]
ApiErrorWithDescription ==
  [type |-> "NodeApiError", message |-> "m-api", description |-> "d-api"]
ApiErrorNoDescription ==
  [type |-> "NodeApiError", message |-> "m-api2", description |-> ""]
NoError == [type |-> "none", message |-> "", description |-> ""]
ActivationErrors == {PlainError, ApiErrorWithDescription, ApiErrorNoDescription}

\* ------------------------------------------------------------------ state

VARIABLES
  workflowRepository,   \* the stored workflow row
  tagMappings,          \* workflowTagMappingRepository: tag ids of the workflow
  workflowHistory,      \* versionIds saved by workflowHistoryService
  activeWorkflows,      \* activeWorkflowRunner: workflows active in memory
  executions,           \* executionRepository: executions of the workflow
  binaryData,           \* binaryDataService: executions holding binary data
  config,               \* multiMainSetup.isEnabled
  nextUuid,             \* the next value uuid() returns
  calls,                \* calls started so far
  pc,                   \* where each call stands
  args,                 \* the arguments of each call
  local,                \* the local variables of each call
  result,               \* how each call ended
  log,                  \* the effects of each call, in order
  sent,                 \* the broadcasts of each call
  call,                 \* each call as it was made, and the store it found
  pinnedPc,             \* findPinnedTrigger: "off", "call" or "done"
  pinnedInput,          \* findPinnedTrigger: workflow, startNodes, pinData
  pinnedResult,         \* findPinnedTrigger: the node returned, or null
  staticPc,             \* saveStaticData: "off", "call", "write" or "done"
  staticInput,          \* saveStaticData: the workflow as it was passed
  staticWorkflow,       \* saveStaticData: the workflow, as the call leaves it
  staticStored,         \* workflowRepository: the staticData column
  staticLog,            \* saveStaticData: the effects of the call, in order
  runPc,                \* runManually: "off", "call", "r_needsWebhook", "r_run", "done"
  runInput,             \* runManually: runData, destinationNode, workflowData.active
  runStarted,           \* WorkflowRunner: the data of each execution started
  runResult,            \* runManually: what the call returned or threw
  compressionPc,        \* Compression.execute: "off", "call", "loop" or "done"
  compressionInput,     \* Compression.execute: the items and the node parameters
  compressionI,         \* Compression.execute: i
  returnData,           \* Compression.execute: returnData
  compressionResult,    \* Compression.execute: "pending", "returned" or "thrown"
  credentials,          \* Db.collections.Credentials, each with its owner
  credentialRequests,   \* requests to /credentials/:id answered so far
  credentialResponse    \* the last request, its answer and the credentials before it

vars == <<workflowRepository, tagMappings, workflowHistory, activeWorkflows,
          executions, binaryData, config, nextUuid, calls, pc, args, local,
          result, log, sent, call, pinnedPc, pinnedInput, pinnedResult,
          staticPc, staticInput, staticWorkflow, staticStored, staticLog,
          runPc, runInput, runStarted, runResult, compressionPc,
          compressionInput, compressionI, returnData, compressionResult,
          credentials, credentialRequests, credentialResponse>>

pinnedVars == <<pinnedPc, pinnedInput, pinnedResult>>

credentialVars == <<credentials, credentialRequests, credentialResponse>>

compressionVars == <<compressionPc, compressionInput, compressionI, returnData,
                     compressionResult>>

runVars == <<runPc, runInput, runStarted, runResult>>

staticVars == <<staticPc, staticInput, staticWorkflow, staticStored, staticLog>>

\* What no call of update or delete changes.
fixed == <<config, pinnedVars, staticVars, runVars, compressionVars,
           credentialVars>>

store == <<workflowRepository, tagMappings, workflowHistory, activeWorkflows,
           executions, binaryData>>

\* What update and delete work on.
serviceVars == <<store, config, nextUuid, calls, pc, args, local, result, log,
                 sent, call>>

NullRow ==
  [exists |-> FALSE, active |-> FALSE, versionId |-> EmptyVersionId,
   name |-> "", settings |-> {}]

NoWorkflow ==
  [keys |-> {}, versionId |-> EmptyVersionId, active |-> FALSE, name |-> "",
   settings |-> {}]

\* Of its arguments a call keeps those the rest of the handler reads: update
\* reads user, forceSave and roles in its first step only.
NoArgs ==
  [user |-> "", workflow |-> NoWorkflow, tagsGiven |-> FALSE, tagIds |-> {}]

NoLocal ==
  [shared |-> NullRow, oldState |-> FALSE, updatedWorkflow |-> NullRow,
   idsForDeletion |-> {}, error |-> NoError]

\* The store as a call finds it.
Snapshot ==
  [workflowRepository |-> workflowRepository, tagMappings |-> tagMappings,
   workflowHistory |-> workflowHistory, activeWorkflows |-> activeWorkflows,
   executions |-> executions, binaryData |-> binaryData]

NoCall ==
  [op |-> "none", user |-> "", roles |-> {}, forceSave |-> FALSE,
   workflow |-> NoWorkflow,
   before |-> [workflowRepository |-> NullRow, tagMappings |-> {},
               workflowHistory |-> {}, activeWorkflows |-> {},
               executions |-> {}, binaryData |-> {}]]

Pending ==
  [status |-> "pending", error |-> "", code |-> NoErrorCode, message |-> "",
   value |-> NullRow]

Returned(row) ==
  [status |-> "returned", error |-> "", code |-> NoErrorCode, message |-> "",
   value |-> row]

Thrown(name, code, message) ==
  [status |-> "thrown", error |-> name, code |-> code, message |-> message,
   value |-> NullRow]

Rethrown(err) == Thrown(err.type, NoErrorCode, err.message)


\* null, where a node is expected.
NullNode == [name |-> "", type |-> <<>>, disabled |-> FALSE]

NoPinnedInput ==
  [workflow |-> [nodes |-> <<>>, connections |-> {}],
   startNodes |-> [given |-> FALSE, names |-> <<>>],
   pinData |-> [given |-> FALSE, names |-> {}]]

\* ----------------------------------------------------------------- helpers

\* config.getEnv('workflowTagsDisabled'), lines 321 and 332: the default.
workflowTagsDisabled == FALSE

\* config.get('executions.timeout'), line 297.
ExecutionsTimeout == "-1"

\* keysAllowingDefault, lines 283-289.
keysAllowingDefault ==
  {"timezone", "saveDataErrorExecution", "saveDataSuccessExecution",
   "saveManualExecutions", "saveExecutionProgress"}

\* The settings a payload may carry, as a set of <<key, value>>.
SettingsChoice ==
  {<<"timezone", "DEFAULT">>, <<"executionTimeout", ExecutionsTimeout>>,
   <<"saveManualExecutions", "true">>}

\* Lines 281-300: the defaults are deleted from workflow.settings in place.
StripDefaults(settings) ==
  { kv \in settings :
      /\ ~(kv[1] \in keysAllowingDefault /\ kv[2] = "DEFAULT")
      /\ ~(kv[1] = "executionTimeout" /\ kv[2] = ExecutionsTimeout) }

\* workflow.versionId as the code reads it: undefined when the key is absent.
VersionIdOf(workflow) ==
  IF "versionId" \in workflow.keys THEN workflow.versionId ELSE UndefinedVersionId

\* The payload of update with the keys k: what it holds under versionId and
\* active is v and a, a key it does not carry holds nothing.
Payload(k, v, a) ==
  [keys |-> k \cup {"id"},
   versionId |-> IF "versionId" \in k THEN v ELSE EmptyVersionId,
   active |-> IF "active" \in k THEN a ELSE FALSE,
   name |-> IF "name" \in k THEN "renamed" ELSE "",
   settings |-> IF "settings" \in k THEN SettingsChoice ELSE {}]

\* The versionIds a client may send: the empty string, the first versionId
\* (stale once the workflow has a new one) and the stored one.
ClientVersionIds(k) ==
  IF "versionId" \in k
  THEN {EmptyVersionId, InitialVersionId, workflowRepository.versionId}
  ELSE {EmptyVersionId}

ClientActive(k) == IF "active" \in k THEN BOOLEAN ELSE {FALSE}

\* sharedWorkflowRepository.findOne({where: await whereClause({user,
\* globalScope, entityType: 'workflow', entityId, roles})}): the user is left
\* out of the where clause when they hold the global scope, else the record
\* must be theirs and, when roles are given, carry one of them.  NullRow
\* stands for null.
findShared(user, globalScope, roles) ==
  IF /\ workflowRepository.exists
     /\ \/ hasGlobalScope(user, globalScope)
        \/ /\ SharingRole(user) # "none"
           /\ roles = {} \/ SharingRole(user) \in roles
  THEN workflowRepository
  ELSE NullRow

\* Mutant of NoPermission: the test compares with undefined, and findOne
\* answers null.
NoPermission_undefinedOnly(shared) == FALSE

\* Line 227: if (!shared).
NoPermission(shared) == ~shared.exists

\* Mutant of VersionConflict: forceSave is not looked at.
VersionConflict_forceSaveIgnored(forceSave, workflow, shared) ==
  /\ VersionIdOf(workflow) # EmptyVersionId
  /\ VersionIdOf(workflow) # shared.versionId

\* Mutant of VersionConflict: the stored versionId is not compared.
VersionConflict_emptyOnly(forceSave, workflow, shared) ==
  /\ ~forceSave
  /\ VersionIdOf(workflow) = EmptyVersionId

\* Lines 239-243.
VersionConflict(forceSave, workflow, shared) ==
  /\ ~forceSave
  /\ VersionIdOf(workflow) # EmptyVersionId
  /\ VersionIdOf(workflow) # shared.versionId

\* Mutant of ChangesProperties: 'active' is missing from the omitted keys.
ChangesProperties_activeCounts(workflow) ==
  (workflow.keys \ {"id", "versionId"}) # {}

\* Line 250.
ChangesProperties(workflow) == (workflow.keys \ OmittedKeys) # {}

\* workflowRepository.update(workflowId, pick(workflow, [...])), lines 307-319:
\* the picked keys the payload carries overwrite the row's; no row, no change.
UpdateRow(row, workflow) ==
  IF ~row.exists THEN row
  ELSE [exists |-> TRUE,
        active |-> IF "active" \in workflow.keys THEN workflow.active ELSE row.active,
        versionId |-> IF "versionId" \in workflow.keys
                      THEN workflow.versionId ELSE row.versionId,
        name |-> IF "name" \in workflow.keys THEN workflow.name ELSE row.name,
        settings |-> IF "settings" \in workflow.keys
                     THEN workflow.settings ELSE row.settings]

\* Lines 375-377.
ActivationMessage(error) ==
  IF error.type = "NodeApiError" /\ error.description # ""
  THEN error.description
  ELSE error.message

\* No call is under way.
Quiet == \A q \in DOMAIN pc : pc[q] = "idle"

\* The call ends: of its frame only the error it caught stays on record.
Finish(p, res) ==
  /\ pc' = [pc EXCEPT ![p] = "done"]
  /\ result' = [result EXCEPT ![p] = res]
  /\ args' = [args EXCEPT ![p] = NoArgs]
  /\ local' = [local EXCEPT ![p] = [NoLocal EXCEPT !.error = local[p].error]]

Goto(p, label) ==
  /\ pc' = [pc EXCEPT ![p] = label]
  /\ UNCHANGED result

Logged(p, event) == log' = [log EXCEPT ![p] = Append(@, event)]

\* ------------------------------------------------------------------ update

\* Lines 208-261: the call, the sharing lookup, the permission check, the
\* version check and the new versionId.
UpdateStart(p, user, forceSave, roles, tagsGiven, workflow) ==
  LET shared == findShared(user, "workflow:update", roles)
      tagIds == IF tagsGiven THEN {"t1"} ELSE {}
  IN
  /\ calls' = calls + 1
  /\ call' = [call EXCEPT ![p] =
       [op |-> "update", user |-> user, roles |-> roles,
        forceSave |-> forceSave, workflow |-> workflow,
        before |-> Snapshot]]
  /\ UNCHANGED <<store, fixed, log, sent>>
  /\ IF NoPermission(shared)
     THEN /\ Finish(p, Thrown("NotFoundError", NoErrorCode, "no-permission"))
          /\ UNCHANGED nextUuid
     ELSE IF VersionConflict(forceSave, workflow, shared)
     THEN /\ Finish(p, Thrown("BadRequestError", VersionConflictCode, "conflict"))
          /\ UNCHANGED nextUuid
     ELSE /\ pc' = [pc EXCEPT ![p] = "u_hook"]
          /\ result' = [result EXCEPT ![p] = Pending]
          /\ local' = [local EXCEPT ![p] =
               [NoLocal EXCEPT !.shared = shared, !.oldState = shared.active]]
          /\ IF ChangesProperties(workflow)
             THEN /\ args' = [args EXCEPT ![p] =
                       [user |-> "",
                        workflow |-> [workflow EXCEPT
                                        !.keys = @ \cup {"versionId"},
                                        !.versionId = nextUuid],
                        tagsGiven |-> tagsGiven, tagIds |-> tagIds]]
                  /\ nextUuid' = nextUuid + 1
             ELSE /\ args' = [args EXCEPT ![p] =
                       [user |-> "", workflow |-> workflow,
                        tagsGiven |-> tagsGiven, tagIds |-> tagIds]]
                  /\ UNCHANGED nextUuid

\* update called by a caller that awaits each call before the next one.
UpdateFindShared(p) ==
  /\ Quiet
  /\ calls < MaxCalls
  /\ \E user \in Users, forceSave \in BOOLEAN, roles \in {{}, {"owner"}},
        tagsGiven \in BOOLEAN, k \in SUBSET PayloadKeys :
     \E v \in ClientVersionIds(k), a \in ClientActive(k) :
       UpdateStart(p, user, forceSave, roles, tagsGiven, Payload(k, v, a))

\* The payloads of the callers that do not await one another: each carries
\* a versionId, and a new name or the active flag or both.
ConcurrentPayloadKeys ==
  {{"versionId", "name"}, {"versionId", "active"}, {"versionId", "name", "active"}}

\* update called by one of two callers while the call of the other may be
\* under way: a non-forced update by the owner of the workflow.
UpdateFindSharedConcurrently(p) ==
  /\ pc[p] = "idle"
  /\ \E k \in ConcurrentPayloadKeys :
     \E v \in ClientVersionIds(k), a \in ClientActive(k) :
       UpdateStart(p, "alice", FALSE, {}, FALSE, Payload(k, v, a))

\* Lines 263-268: replaceInvalidCredentials, addNodeIds and the
\* 'workflow.update' external hook, which may throw.
UpdateHook(p) ==
  /\ pc[p] = "u_hook"
  /\ Logged(p, "hook:workflow.update")
  /\ call' = [call EXCEPT ![p].user = "", ![p].roles = {}, ![p].forceSave = FALSE]
  /\ UNCHANGED <<store, fixed, nextUuid, calls, sent>>
  /\ \E throws \in BOOLEAN :
       IF throws
       THEN Finish(p, Rethrown(PlainError))
       ELSE Goto(p, "u_remove") /\ UNCHANGED <<args, local>>

\* Mutant of UpdateRemove: the workflow is re-added at once, before the
\* repository write.
UpdateRemove_readdAtOnce(p) ==
  /\ pc[p] = "u_remove"
  /\ UNCHANGED call
  /\ IF local[p].shared.active
     THEN /\ activeWorkflows' = activeWorkflows \cup {workflowId}
          /\ log' = [log EXCEPT ![p] =
               @ \o <<"activeWorkflowRunner.remove", "activeWorkflowRunner.add">>]
     ELSE UNCHANGED <<activeWorkflows, log>>
  /\ Goto(p, "u_validate")
  /\ UNCHANGED <<workflowRepository, tagMappings, workflowHistory, executions,
                 binaryData, fixed, nextUuid, calls, args, local, sent>>

\* Lines 270-279: a workflow stored as active leaves the active workflows.
UpdateRemove(p) ==
  /\ pc[p] = "u_remove"
  /\ UNCHANGED call
  /\ IF local[p].shared.active
     THEN /\ activeWorkflows' = activeWorkflows \ {workflowId}
          /\ Logged(p, "activeWorkflowRunner.remove")
     ELSE UNCHANGED <<activeWorkflows, log>>
  /\ Goto(p, "u_validate")
  /\ UNCHANGED <<workflowRepository, tagMappings, workflowHistory, executions,
                 binaryData, fixed, nextUuid, calls, args, local, sent>>

\* Lines 281-305: the default settings are dropped; a named workflow is
\* validated, and validateEntity may throw.
UpdateValidate(p) ==
  /\ pc[p] = "u_validate"
  /\ UNCHANGED call
  /\ UNCHANGED <<store, fixed, nextUuid, calls, sent, log>>
  /\ \E valid \in BOOLEAN :
       IF args[p].workflow.name # "" /\ ~valid
       THEN Finish(p, Thrown("BadRequestError", NoErrorCode, "invalid-entity"))
       ELSE /\ Goto(p, "u_persist")
            /\ args' = [args EXCEPT ![p].workflow.settings = StripDefaults(@)]
            /\ UNCHANGED local

\* Lines 307-319: the repository write, which may throw.
UpdatePersist(p) ==
  /\ pc[p] = "u_persist"
  /\ UNCHANGED call
  /\ UNCHANGED <<tagMappings, workflowHistory, activeWorkflows, executions,
                 binaryData, fixed, nextUuid, calls, sent>>
  /\ \E throws \in BOOLEAN :
       IF throws
       THEN /\ Finish(p, Rethrown(PlainError))
            /\ UNCHANGED <<workflowRepository, log>>
       ELSE /\ workflowRepository' = UpdateRow(workflowRepository, args[p].workflow)
            /\ Logged(p, "workflowRepository.update")
            /\ Goto(p, "u_tags")
            /\ UNCHANGED <<args, local>>

\* Lines 321-326: the tag mappings are replaced by the given ones.
UpdateTags(p) ==
  /\ pc[p] = "u_tags"
  /\ UNCHANGED call
  /\ IF args[p].tagsGiven /\ ~workflowTagsDisabled
     THEN /\ tagMappings' = args[p].tagIds
          /\ Logged(p, "workflowTagMappingRepository.replace")
     ELSE UNCHANGED <<tagMappings, log>>
  /\ Goto(p, "u_history")
  /\ UNCHANGED <<workflowRepository, workflowHistory, activeWorkflows,
                 executions, binaryData, fixed, nextUuid, calls, args, local,
                 sent>>

\* Lines 328-330: a changed versionId is saved to the workflow history.
UpdateHistory(p) ==
  /\ pc[p] = "u_history"
  /\ UNCHANGED call
  /\ IF VersionIdOf(args[p].workflow) # local[p].shared.versionId
     THEN /\ workflowHistory' = workflowHistory \cup {VersionIdOf(args[p].workflow)}
          /\ Logged(p, "workflowHistoryService.saveVersion")
     ELSE UNCHANGED <<workflowHistory, log>>
  /\ Goto(p, "u_find")
  /\ UNCHANGED <<workflowRepository, tagMappings, activeWorkflows, executions,
                 binaryData, fixed, nextUuid, calls, args, local, sent>>

\* Lines 332-351: the updated row is read back.
UpdateFindUpdated(p) ==
  /\ pc[p] = "u_find"
  /\ UNCHANGED call
  /\ UNCHANGED <<store, fixed, nextUuid, calls, sent, log>>
  /\ IF ~workflowRepository.exists
     THEN Finish(p, Thrown("BadRequestError", NoErrorCode, "not-found-to-update"))
     ELSE /\ Goto(p, "u_afterUpdate")
          /\ local' = [local EXCEPT ![p].updatedWorkflow = workflowRepository]
          /\ UNCHANGED args

\* Lines 353-354: the 'workflow.afterUpdate' external hook, which may throw.
UpdateAfterHook(p) ==
  /\ pc[p] = "u_afterUpdate"
  /\ UNCHANGED call
  /\ Logged(p, "hook:workflow.afterUpdate")
  /\ UNCHANGED <<store, fixed, nextUuid, calls, sent>>
  /\ \E throws \in BOOLEAN :
       IF throws
       THEN Finish(p, Rethrown(PlainError))
       ELSE /\ Goto(p, IF local[p].updatedWorkflow.active
                       THEN "u_activate" ELSE "u_broadcast")
            /\ UNCHANGED <<args, local>>

\* Lines 356-359: the 'workflow.activate' external hook, which may throw.
UpdateActivateHook(p) ==
  /\ pc[p] = "u_activate"
  /\ UNCHANGED call
  /\ Logged(p, "hook:workflow.activate")
  /\ UNCHANGED <<store, fixed, nextUuid, calls, sent, args, result>>
  /\ \E error \in ActivationErrors \cup {NoError} :
       IF error # NoError
       THEN /\ pc' = [pc EXCEPT ![p] = "u_rollback"]
            /\ local' = [local EXCEPT ![p].error = error]
       ELSE /\ pc' = [pc EXCEPT ![p] = "u_add"]
            /\ UNCHANGED local

\* Mutant of UpdateAdd: the workflow is re-added only when it was not active
\* before (the mode 'activate'), never in the mode 'update'.
UpdateAdd_activateOnly(p) ==
  /\ pc[p] = "u_add"
  /\ UNCHANGED call
  /\ UNCHANGED <<workflowRepository, tagMappings, workflowHistory, executions,
                 binaryData, fixed, nextUuid, calls, sent, args, result>>
  /\ pc' = [pc EXCEPT ![p] = "u_broadcast"]
  /\ UNCHANGED local
  /\ IF local[p].shared.active
     THEN UNCHANGED <<activeWorkflows, log>>
     ELSE /\ activeWorkflows' = activeWorkflows \cup {workflowId}
          /\ Logged(p, "activeWorkflowRunner.add")

\* Lines 360-363: activeWorkflowRunner.add, which may throw.
UpdateAdd(p) ==
  /\ pc[p] = "u_add"
  /\ UNCHANGED call
  /\ UNCHANGED <<workflowRepository, tagMappings, workflowHistory, executions,
                 binaryData, fixed, nextUuid, calls, sent, args, result>>
  /\ \E error \in ActivationErrors \cup {NoError} :
       IF error # NoError
       THEN /\ pc' = [pc EXCEPT ![p] = "u_rollback"]
            /\ local' = [local EXCEPT ![p].error = error]
            /\ UNCHANGED <<activeWorkflows, log>>
       ELSE /\ pc' = [pc EXCEPT ![p] = "u_broadcast"]
            /\ activeWorkflows' = activeWorkflows \cup {workflowId}
            /\ Logged(p, "activeWorkflowRunner.add")
            /\ UNCHANGED local

\* Mutant of UpdateRollback: the versionId is not reverted.
UpdateRollback_activeOnly(p) ==
  /\ pc[p] = "u_rollback"
  /\ UNCHANGED call
  /\ workflowRepository' =
       IF workflowRepository.exists
       THEN [workflowRepository EXCEPT !.active = FALSE]
       ELSE workflowRepository
  /\ Logged(p, "workflowRepository.rollback")
  /\ Finish(p, Thrown("BadRequestError", NoErrorCode,
                      ActivationMessage(local[p].error)))
  /\ UNCHANGED <<tagMappings, workflowHistory, activeWorkflows, executions,
                 binaryData, fixed, nextUuid, calls, sent>>

\* Lines 364-381: the workflow is stored inactive again with the versionId
\* the lookup read, and the error goes to the caller as a BadRequestError.
UpdateRollback(p) ==
  /\ pc[p] = "u_rollback"
  /\ UNCHANGED call
  /\ workflowRepository' =
       IF workflowRepository.exists
       THEN [workflowRepository EXCEPT !.active = FALSE,
                                       !.versionId = local[p].shared.versionId]
       ELSE workflowRepository
  /\ Logged(p, "workflowRepository.rollback")
  /\ Finish(p, Thrown("BadRequestError", NoErrorCode,
                      ActivationMessage(local[p].error)))
  /\ UNCHANGED <<tagMappings, workflowHistory, activeWorkflows, executions,
                 binaryData, fixed, nextUuid, calls, sent>>

\* Mutant of UpdateBroadcast: oldState is read from the updated workflow.
UpdateBroadcast_oldStateAfter(p) ==
  /\ pc[p] = "u_broadcast"
  /\ UNCHANGED call
  /\ IF config.multiMainEnabled
     THEN /\ sent' = [sent EXCEPT ![p] = Append(@,
                 [oldState |-> local[p].updatedWorkflow.active,
                  newState |-> local[p].updatedWorkflow.active,
                  versionId |-> local[p].shared.versionId])]
          /\ Logged(p, "broadcastWorkflowActiveStateChanged")
     ELSE UNCHANGED <<sent, log>>
  /\ Finish(p, Returned(local[p].updatedWorkflow))
  /\ UNCHANGED <<store, fixed, nextUuid, calls>>

\* Lines 384-395: the broadcast in a multi-main setup, and the return.
UpdateBroadcast(p) ==
  /\ pc[p] = "u_broadcast"
  /\ UNCHANGED call
  /\ IF config.multiMainEnabled
     THEN /\ sent' = [sent EXCEPT ![p] = Append(@,
                 [oldState |-> local[p].oldState,
                  newState |-> local[p].updatedWorkflow.active,
                  versionId |-> local[p].shared.versionId])]
          /\ Logged(p, "broadcastWorkflowActiveStateChanged")
     ELSE UNCHANGED <<sent, log>>
  /\ Finish(p, Returned(local[p].updatedWorkflow))
  /\ UNCHANGED <<store, fixed, nextUuid, calls>>


\* ------------------------------------------------------------------ delete

\* Lines 480-481: the call and the 'workflow.delete' external hook, which
\* may throw.
DeleteHook(p) ==
  /\ Quiet
  /\ calls < MaxCalls
  /\ calls' = calls + 1
  /\ Logged(p, "hook:workflow.delete")
  /\ UNCHANGED <<store, fixed, nextUuid, sent>>
  /\ \E user \in Users, throws \in BOOLEAN :
     /\ call' = [call EXCEPT ![p] =
          [NoCall EXCEPT !.op = "delete", !.user = user, !.roles = {"owner"},
                         !.before = Snapshot]]
     /\ IF throws
       THEN Finish(p, Rethrown(PlainError))
       ELSE /\ pc' = [pc EXCEPT ![p] = "d_find"]
            /\ result' = [result EXCEPT ![p] = Pending]
            /\ args' = [args EXCEPT ![p] = [NoArgs EXCEPT !.user = user]]
            /\ local' = [local EXCEPT ![p] = NoLocal]

\* Lines 483-496: the sharing lookup; without a record delete returns
\* undefined.
DeleteFindShared(p) ==
  /\ pc[p] = "d_find"
  /\ UNCHANGED call
  /\ UNCHANGED <<store, fixed, nextUuid, calls, sent, log>>
  /\ LET sharedWorkflow == findShared(args[p].user, "workflow:delete", {"owner"})
     IN IF ~sharedWorkflow.exists
        THEN Finish(p, Returned(NullRow))
        ELSE /\ Goto(p, "d_remove")
             /\ local' = [local EXCEPT ![p].shared = sharedWorkflow]
             /\ UNCHANGED args

\* Mutant of DeleteRemove: the workflow is not deactivated.
DeleteRemove_notDeactivated(p) ==
  /\ pc[p] = "d_remove"
  /\ Goto(p, "d_executions")
  /\ UNCHANGED <<store, fixed, nextUuid, calls, args, local, sent, log, call>>

\* Lines 498-501: deactivate before deleting.
DeleteRemove(p) ==
  /\ pc[p] = "d_remove"
  /\ UNCHANGED call
  /\ IF local[p].shared.active
     THEN /\ activeWorkflows' = activeWorkflows \ {workflowId}
          /\ Logged(p, "activeWorkflowRunner.remove")
     ELSE UNCHANGED <<activeWorkflows, log>>
  /\ Goto(p, "d_executions")
  /\ UNCHANGED <<workflowRepository, tagMappings, workflowHistory, executions,
                 binaryData, fixed, nextUuid, calls, args, local, sent>>

\* Lines 503-508: the executions of the workflow.
DeleteFindExecutions(p) ==
  /\ pc[p] = "d_executions"
  /\ UNCHANGED call
  /\ local' = [local EXCEPT ![p].idsForDeletion = executions]
  /\ Goto(p, "d_row")
  /\ UNCHANGED <<store, fixed, nextUuid, calls, args, sent, log>>

\* Line 510: the workflow row is deleted, and its tag mappings with it.
DeleteRow(p) ==
  /\ pc[p] = "d_row"
  /\ UNCHANGED call
  /\ workflowRepository' = NullRow
  /\ tagMappings' = {}
  /\ Logged(p, "workflowRepository.delete")
  /\ Goto(p, "d_binary")
  /\ UNCHANGED <<workflowHistory, activeWorkflows, executions, binaryData,
                 fixed, nextUuid, calls, args, local, sent>>

\* Line 511: the binary data of the executions found.
DeleteBinaryData(p) ==
  /\ pc[p] = "d_binary"
  /\ UNCHANGED call
  /\ binaryData' = binaryData \ local[p].idsForDeletion
  /\ Logged(p, "binaryDataService.deleteMany")
  /\ Goto(p, "d_afterDelete")
  /\ UNCHANGED <<workflowRepository, tagMappings, workflowHistory,
                 activeWorkflows, executions, fixed, nextUuid, calls, args,
                 local, sent>>

\* Lines 513-516: the 'workflow.afterDelete' external hook, which may throw,
\* and the return of the workflow the lookup read.
DeleteAfterHook(p) ==
  /\ pc[p] = "d_afterDelete"
  /\ UNCHANGED call
  /\ Logged(p, "hook:workflow.afterDelete")
  /\ UNCHANGED <<store, fixed, nextUuid, calls, sent>>
  /\ \E throws \in BOOLEAN :
       IF throws
       THEN Finish(p, Rethrown(PlainError))
       ELSE Finish(p, Returned(local[p].shared))

\* The caller takes the outcome of its call, and may call again.
Return(p) ==
  /\ pc[p] = "done"
  /\ pc' = [pc EXCEPT ![p] = "idle"]
  /\ result' = [result EXCEPT ![p] = Pending]
  /\ log' = [log EXCEPT ![p] = <<>>]
  /\ sent' = [sent EXCEPT ![p] = <<>>]
  /\ call' = [call EXCEPT ![p] = NoCall]
  /\ local' = [local EXCEPT ![p] = NoLocal]
  /\ UNCHANGED <<store, fixed, nextUuid, calls, args>>

\* ------------------------------------------------------- findPinnedTrigger

Uppercase ==
  <<"A", "B", "C", "D", "E", "F", "G", "H", "I", "J", "K", "L", "M", "N", "O",
    "P", "Q", "R", "S", "T", "U", "V", "W", "X", "Y", "Z">>

Lowercase ==
  <<"a", "b", "c", "d", "e", "f", "g", "h", "i", "j", "k", "l", "m", "n", "o",
    "p", "q", "r", "s", "t", "u", "v", "w", "x", "y", "z">>

\* A string is the sequence of its characters.
LowerChar(c) ==
  IF \E i \in 1..Len(Uppercase) : Uppercase[i] = c
  THEN Lowercase[CHOOSE i \in 1..Len(Uppercase) : Uppercase[i] = c]
  ELSE c

\* String.prototype.toLowerCase.
toLowerCase(str) == [i \in 1..Len(str) |-> LowerChar(str[i])]

\* String.prototype.includes.
includes(str, sub) ==
  \E k \in 0..(Len(str) - Len(sub)) : \A j \in 1..Len(sub) : str[k + j] = sub[j]

\* ['trigger', 'webhook'], line 93.
TriggerSuffixes ==
  { <<"t", "r", "i", "g", "g", "e", "r">>, <<"w", "e", "b", "h", "o", "o", "k">> }

\* Mutant of isTrigger: the type name is not lower-cased.
isTrigger_caseSensitive(nodeTypeName) ==
  \E suffix \in TriggerSuffixes : includes(nodeTypeName, suffix)

\* Lines 92-93.
isTrigger(nodeTypeName) ==
  \E suffix \in TriggerSuffixes : includes(toLowerCase(nodeTypeName), suffix)

\* The nodes a workflow may hold, under the names A, B and C in this order.
NodeNames == <<"A", "B", "C">>

NodeTypes ==
  { <<"W", "e", "b", "h", "o", "o", "k">>,
    <<"c", "r", "o", "n", "T", "r", "i", "g", "g", "e", "r">>,
    <<"s", "e", "t">> }

\* Connections a workflow may hold in one run of the check.
MaxConnections == 2

\* A connection <<a, b>> leads from the node a to the node b.
AllConnections ==
  { c \in {<<NodeNames[i], NodeNames[j]>> : i, j \in 1..Len(NodeNames)} :
      c[1] # c[2] }

RECURSIVE Reach(_, _, _)
Reach(connections, found, n) ==
  IF n = 0 THEN found
  ELSE Reach(connections,
             found \cup {c[1] : c \in {x \in connections : x[2] \in found}},
             n - 1)

\* Workflow.getParentNodes(nodeName) of n8n-workflow: the names of the nodes
\* that lead to the node over any number of connections, the node itself
\* left out.
getParentNodes(connections, nodeName) ==
  Reach(connections, {nodeName}, Len(NodeNames)) \ {nodeName}

\* No node has this name: checkNodeName when find answers undefined.
UndefinedName == "undefined"

\* Lines 89-121.
findPinnedTrigger(workflow, startNodes, pinData) ==
  IF ~pinData.given \/ ~startNodes.given THEN NullNode
  ELSE
    LET isPinnedTrigger(node) ==
          ~node.disabled /\ node.name \in pinData.names /\ isTrigger(node.type)
        pinnedTriggers == SelectSeq(workflow.nodes, isPinnedTrigger)
    IN
    IF Len(pinnedTriggers) = 0 THEN NullNode
    ELSE IF Len(startNodes.names) = 0 THEN pinnedTriggers[1]
    ELSE
      LET startNodeName == startNodes.names[1]
          parentNames == getParentNodes(workflow.connections, startNodeName)
          checkNodeName ==
            IF parentNames = {} THEN startNodeName
            ELSE IF pinnedTriggers[1].name \in parentNames
                 THEN pinnedTriggers[1].name
                 ELSE UndefinedName
          found == { i \in 1..Len(pinnedTriggers) :
                       pinnedTriggers[i].name = checkNodeName }
      IN IF found = {} THEN NullNode
         ELSE pinnedTriggers[CHOOSE i \in found : \A j \in found : i <= j]

\* The call of findPinnedTrigger on the input of this behaviour.
FindPinnedTrigger ==
  /\ pinnedPc = "call"
  /\ pinnedPc' = "done"
  /\ pinnedResult' = findPinnedTrigger(pinnedInput.workflow,
                                       pinnedInput.startNodes, pinnedInput.pinData)
  /\ UNCHANGED <<serviceVars, pinnedInput, staticVars, runVars, compressionVars, credentialVars>>

\* startNodes as a caller may give it: not at all, empty, or with the node
\* to execute first.
StartNodesChoices ==
  {[given |-> FALSE, names |-> <<>>], [given |-> TRUE, names |-> <<>>]}
    \cup {[given |-> TRUE, names |-> <<NodeNames[i]>>] : i \in 1..Len(NodeNames)}
    \cup {[given |-> TRUE, names |-> <<NodeNames[1], NodeNames[2]>>]}

PinDataChoices ==
  {[given |-> FALSE, names |-> {}]}
    \cup {[given |-> TRUE, names |-> names] :
            names \in SUBSET {NodeNames[i] : i \in 1..Len(NodeNames)}}

\* -------------------------------------------------------------- runManually

NoRunInput ==
  [runData |-> [given |-> FALSE, names |-> {}], destinationNode |-> FALSE,
   active |-> FALSE]

\* What runManually answers: nothing yet, {waitingForWebhook: true},
\* {executionId}, or an error.
NoRunResult == [status |-> "pending", waitingForWebhook |-> FALSE]

WaitingForWebhook == [status |-> "returned", waitingForWebhook |-> TRUE]

ExecutionStarted == [status |-> "returned", waitingForWebhook |-> FALSE]

RunRejected == [status |-> "thrown", waitingForWebhook |-> FALSE]

\* Mutant of MayWaitForWebhook: a pinned trigger does not matter.
MayWaitForWebhook_pinnedOrNot(pinnedTrigger, runData, startNodes, destinationNode) ==
  \/ ~runData.given
  \/ ~startNodes.given
  \/ Len(startNodes.names) = 0
  \/ ~destinationNode

\* Lines 415-421.
MayWaitForWebhook(pinnedTrigger, runData, startNodes, destinationNode) ==
  /\ pinnedTrigger = NullNode
  /\ \/ ~runData.given
     \/ ~startNodes.given
     \/ Len(startNodes.names) = 0
     \/ ~destinationNode

\* Line 466.
hasRunData(runData, node) == runData.given /\ node.name \in runData.names

\* Mutant of StartNodesOf: the run data of the pinned trigger is not looked at.
StartNodesOf_whenPinned(pinnedTrigger, runData, startNodes) ==
  IF pinnedTrigger # NullNode
  THEN [given |-> TRUE, names |-> <<pinnedTrigger.name>>]
  ELSE startNodes

\* Lines 461 and 468-470: data.startNodes.
StartNodesOf(pinnedTrigger, runData, startNodes) ==
  IF pinnedTrigger # NullNode /\ ~hasRunData(runData, pinnedTrigger)
  THEN [given |-> TRUE, names |-> <<pinnedTrigger.name>>]
  ELSE startNodes

\* Lines 398-431: the call, findPinnedTrigger and the test whether to ask
\* for a webhook.
RunManually ==
  /\ runPc = "call"
  /\ pinnedResult' = findPinnedTrigger(pinnedInput.workflow,
                                       pinnedInput.startNodes, pinnedInput.pinData)
  /\ runPc' = IF MayWaitForWebhook(pinnedResult', runInput.runData,
                                   pinnedInput.startNodes, runInput.destinationNode)
              THEN "r_needsWebhook" ELSE "r_run"
  /\ UNCHANGED <<serviceVars, staticVars, compressionVars, credentialVars, pinnedPc, pinnedInput,
                 runInput, runStarted, runResult>>

\* Lines 433-449: getBase and testWebhooks.needsWebhookData, each of which
\* may throw.
RunNeedsWebhook ==
  /\ runPc = "r_needsWebhook"
  /\ \E throws \in BOOLEAN, needsWebhook \in BOOLEAN :
       IF throws
       THEN runPc' = "done" /\ runResult' = RunRejected
       ELSE IF needsWebhook
       THEN runPc' = "done" /\ runResult' = WaitingForWebhook
       ELSE runPc' = "r_run" /\ UNCHANGED runResult
  /\ UNCHANGED <<serviceVars, staticVars, compressionVars, credentialVars, pinnedVars, runInput,
                 runStarted>>

\* Lines 451-477: the execution is started; workflowRunner.run may throw,
\* with the execution started or not.
RunStart ==
  /\ runPc = "r_run"
  /\ runPc' = "done"
  /\ LET data ==
           [active |-> FALSE,
            runData |-> runInput.runData,
            destinationNode |-> runInput.destinationNode,
            pinData |-> pinnedInput.pinData,
            startNodes |-> StartNodesOf(pinnedResult, runInput.runData,
                                        pinnedInput.startNodes)]
     IN \E throws \in BOOLEAN, started \in BOOLEAN :
          /\ ~throws => started
          /\ runStarted' = IF started THEN Append(runStarted, data) ELSE runStarted
          /\ runResult' = IF throws THEN RunRejected ELSE ExecutionStarted
  /\ UNCHANGED <<serviceVars, staticVars, compressionVars, credentialVars, pinnedVars, runInput>>

\* ---------------------------------------------------------- saveStaticData

\* workflow.staticData.__dataChanged: true, false, not set, or the number 1.
DataChangedValues == {"true", "false", "undefined", "1"}

StaticValues == {"v1", "v2", "v3"}

NoStaticWorkflow ==
  [idValid |-> FALSE, staticData |-> [dataChanged |-> "undefined", value |-> ""]]

\* Mutant of DataChanged: any truthy value counts.
DataChanged_truthy(workflow) ==
  workflow.staticData.dataChanged \in {"true", "1"}

\* Line 540: workflow.staticData.__dataChanged === true.
DataChanged(workflow) == workflow.staticData.dataChanged = "true"

\* Lines 539-543: the two tests; isWorkflowIdValid(workflow.id) is an input.
SaveStaticData ==
  /\ staticPc = "call"
  /\ staticPc' = IF DataChanged(staticWorkflow) /\ staticWorkflow.idValid
                 THEN "write" ELSE "done"
  /\ UNCHANGED <<serviceVars, pinnedVars, runVars, compressionVars, credentialVars, staticInput,
                 staticWorkflow, staticStored, staticLog>>

\* Lines 544-554 and 565-569: the write of staticData, which may throw; the
\* error is reported and logged, and not thrown on.
SaveStaticDataById ==
  /\ staticPc = "write"
  /\ staticPc' = "done"
  /\ \E throws \in BOOLEAN :
       IF throws
       THEN /\ staticLog' = staticLog \o <<"workflowRepository.update", "logger.error">>
            /\ UNCHANGED <<staticStored, staticWorkflow>>
       ELSE /\ staticLog' = Append(staticLog, "workflowRepository.update")
            /\ staticStored' = staticWorkflow.staticData
            /\ staticWorkflow' =
                 [staticWorkflow EXCEPT !.staticData.dataChanged = "false"]
  /\ UNCHANGED <<serviceVars, pinnedVars, runVars, compressionVars, credentialVars, staticInput>>

\* ------------------------------------------------------ Compression.execute

\* Input items a run of the check passes to the node.
MaxItems == 2

\* Names the parameter binaryPropertyName may list.
MaxFields == 2

MacOsxMarker == <<"_", "_", "M", "A", "C", "O", "S", "X">>

\* The binary data an item may hold under a listed name: a zip archive of
\* one file, of two files, or of one file and its __MACOSX duplicate, a gz
\* file, a text file, or nothing.
FileKinds == {"zip1", "zip2", "zip1m", "gz", "txt", "missing"}

\* binaryData.fileExtension?.toLowerCase(), lines 217 and 233.
ExtensionOf(kind) ==
  CASE kind \in {"zip1", "zip2", "zip1m"} -> "zip"
    [] kind = "gz" -> "gz"
    [] OTHER -> "txt"

\* Object.keys(await unzip(buffer)), lines 218-220.
EntriesOf(kind) ==
  CASE kind = "zip1" -> << <<"a">> >>
    [] kind = "zip2" -> << <<"a">>, <<"b">> >>
    [] kind = "zip1m" -> << <<"a">>, MacOsxMarker \o <<"/", "a">> >>
    [] OTHER -> << >>

NoCompressionInput ==
  [items |-> <<>>, operation |-> "", outputFormat |-> "",
   continueOnFail |-> FALSE]

\* binaryObject[key] = data: a binary object is the set of its <<key, data>>
\* pairs, a key being <<"prefix", n>> for `${outputPrefix}${n}` or
\* <<"output", 0>> for binaryPropertyOutput.
PutBinary(binaryObject, key, data) ==
  {b \in binaryObject : b[1] # key} \cup {<<key, data>>}

\* Lines 220-232: the files of one archive, from the entry at position e.
RECURSIVE UnzipInto(_, _, _, _)
UnzipInto(state, index, entries, e) ==
  IF e > Len(entries) THEN state
  ELSE IF includes(entries[e], MacOsxMarker)
  THEN UnzipInto(state, index, entries, e + 1)
  ELSE UnzipInto([binaryObject |->
                    PutBinary(state.binaryObject, <<"prefix", state.zipIndex>>,
                              <<index, entries[e]>>),
                  zipIndex |-> state.zipIndex + 1],
                 index, entries, e + 1)

\* Lines 213-248: the listed binary fields of one item, from position k; the
\* index of the loop is k - 1.
RECURSIVE DecompressFrom(_, _, _)
DecompressFrom(state, files, k) ==
  IF k > Len(files) THEN state
  ELSE IF ExtensionOf(files[k]) = "zip"
  THEN DecompressFrom(UnzipInto(state, k - 1, EntriesOf(files[k]), 1), files, k + 1)
  ELSE IF ExtensionOf(files[k]) = "gz"
  THEN DecompressFrom([state EXCEPT !.binaryObject =
                          PutBinary(@, <<"prefix", k - 1>>, <<k - 1, <<>>>>)],
                      files, k + 1)
  ELSE DecompressFrom(state, files, k + 1)

\* Lines 270-293 with outputFormat 'gzip'.
GzipAll(files) ==
  {<<<<"prefix", k - 1>>, <<k - 1, <<>>>>>> : k \in 1..Len(files)}

\* this.helpers.assertBinaryData(i, binaryPropertyName), lines 214 and 271,
\* throws for an item without binary data under the name.
AssertBinaryDataThrows(files) == \E k \in 1..Len(files) : files[k] = "missing"

\* Lines 202-324: what the try block pushes for the item at position n
\* (i = n - 1), as a sequence of no or one output item.
Pushed(input, n) ==
  LET item == input.items[n]
      out(binary) == <<[json |-> item.json, binary |-> binary, pairedItem |-> n - 1]>>
  IN IF input.operation = "decompress"
     THEN out(DecompressFrom([binaryObject |-> {}, zipIndex |-> 0],
                             item.files, 1).binaryObject)
     ELSE IF input.operation = "compress"
     THEN IF input.outputFormat = "zip"
          THEN out({<<<<"output", 0>>, <<Len(item.files), <<>>>>>>})
          ELSE IF input.outputFormat = "gzip"
          THEN out(GzipAll(item.files))
          ELSE <<>>
     ELSE <<>>

\* Lines 194-198.
CompressionExecute ==
  /\ compressionPc = "call"
  /\ compressionPc' = "loop"
  /\ compressionI' = 0
  /\ returnData' = <<>>
  /\ UNCHANGED <<serviceVars, pinnedVars, staticVars, runVars, credentialVars, compressionInput,
                 compressionResult>>

\* Mutant of CompressionItem: after the error item the loop ends.
CompressionItem_breaksOnError ==
  /\ compressionPc = "loop"
  /\ compressionI < Len(compressionInput.items)
  /\ LET n == compressionI + 1
     IN IF ~AssertBinaryDataThrows(compressionInput.items[n].files)
        THEN /\ returnData' = returnData \o Pushed(compressionInput, n)
             /\ compressionI' = compressionI + 1
             /\ UNCHANGED <<compressionPc, compressionResult>>
        ELSE IF compressionInput.continueOnFail
        THEN /\ returnData' = Append(returnData,
                                     [json |-> "error", binary |-> {},
                                      pairedItem |-> compressionI])
             /\ compressionI' = Len(compressionInput.items)
             /\ UNCHANGED <<compressionPc, compressionResult>>
        ELSE /\ compressionPc' = "done"
             /\ compressionResult' = "thrown"
             /\ UNCHANGED <<returnData, compressionI>>
  /\ UNCHANGED <<serviceVars, pinnedVars, staticVars, runVars, credentialVars, compressionInput>>

\* Lines 200-339: one turn of the loop over the items.
CompressionItem ==
  /\ compressionPc = "loop"
  /\ compressionI < Len(compressionInput.items)
  /\ LET n == compressionI + 1
     IN IF ~AssertBinaryDataThrows(compressionInput.items[n].files)
        THEN /\ returnData' = returnData \o Pushed(compressionInput, n)
             /\ compressionI' = compressionI + 1
             /\ UNCHANGED <<compressionPc, compressionResult>>
        ELSE IF compressionInput.continueOnFail
        THEN /\ returnData' = Append(returnData,
                                     [json |-> "error", binary |-> {},
                                      pairedItem |-> compressionI])
             /\ compressionI' = compressionI + 1
             /\ UNCHANGED <<compressionPc, compressionResult>>
        ELSE /\ compressionPc' = "done"
             /\ compressionResult' = "thrown"
             /\ UNCHANGED <<returnData, compressionI>>
  /\ UNCHANGED <<serviceVars, pinnedVars, staticVars, runVars, credentialVars, compressionInput>>

\* Line 341.
CompressionReturn ==
  /\ compressionPc = "loop"
  /\ compressionI >= Len(compressionInput.items)
  /\ compressionPc' = "done"
  /\ compressionResult' = "returned"
  /\ UNCHANGED <<serviceVars, pinnedVars, staticVars, runVars, credentialVars, compressionInput,
                 compressionI, returnData>>

\* ------------------------------------------------- /credentials/:id

\* Requests to /credentials/:id in one run of the check.
MaxCredentialRequests == 2

\* The owner that createOwnerShell makes, and the members createUser makes.
CredentialUsers == {"owner", "member1", "member2"}

\* The ids of the credentials saveCredential saves; no credential has the
\* id 123.
CredentialIds == {"c1", "c2"}

RequestedIds == CredentialIds \cup {"123"}

CredentialNames == {"n1", "n2"}

NoCredential == [exists |-> FALSE, owner |-> "", name |-> ""]

NoCredentialResponse ==
  [method |-> "", user |-> "", id |-> "", name |-> "", statusCode |-> NoErrorCode,
   before |-> [id \in CredentialIds |-> NoCredential]]

StatusOk == 200

StatusNotFound == 404

\* Mutant of CredentialFor: any user reaches any credential.
CredentialFor_anyUser(user, id) ==
  IF id \in CredentialIds /\ credentials[id].exists
  THEN credentials[id] ELSE NoCredential

\* The credential the handlers of /credentials/:id find for the user: any
\* credential for the instance owner, their own for a member.
CredentialFor(user, id) ==
  IF /\ id \in CredentialIds
     /\ credentials[id].exists
     /\ user = "owner" \/ credentials[id].owner = user
  THEN credentials[id] ELSE NoCredential

Answered(method, user, id, name, statusCode) ==
  /\ credentialRequests' = credentialRequests + 1
  /\ credentialResponse' =
       [method |-> method, user |-> user, id |-> id, name |-> name,
        statusCode |-> statusCode, before |-> credentials]

\* DELETE /credentials/:id.
DeleteCredential ==
  /\ credentialRequests < MaxCredentialRequests
  /\ \E user \in CredentialUsers, id \in RequestedIds :
       IF CredentialFor(user, id).exists
       THEN /\ credentials' = [credentials EXCEPT ![id] = NoCredential]
            /\ Answered("DELETE", user, id, "", StatusOk)
       ELSE /\ UNCHANGED credentials
            /\ Answered("DELETE", user, id, "", StatusNotFound)
  /\ UNCHANGED <<serviceVars, pinnedVars, staticVars, runVars, compressionVars>>

\* PATCH /credentials/:id with a valid payload.
PatchCredential ==
  /\ credentialRequests < MaxCredentialRequests
  /\ \E user \in CredentialUsers, id \in RequestedIds, name \in CredentialNames :
       IF CredentialFor(user, id).exists
       THEN /\ credentials' = [credentials EXCEPT ![id].name = name]
            /\ Answered("PATCH", user, id, name, StatusOk)
       ELSE /\ UNCHANGED credentials
            /\ Answered("PATCH", user, id, name, StatusNotFound)
  /\ UNCHANGED <<serviceVars, pinnedVars, staticVars, runVars, compressionVars>>

\* ------------------------------------------------------------ specification

InitService ==
  /\ \E active \in BOOLEAN :
       /\ workflowRepository =
            [exists |-> TRUE, active |-> active, versionId |-> InitialVersionId,
             name |-> "original", settings |-> {}]
       /\ activeWorkflows = IF active THEN {workflowId} ELSE {}
  /\ tagMappings = {"t2"}
  /\ workflowHistory = {InitialVersionId}
  /\ executions = ExecutionIds
  /\ binaryData = ExecutionIds
  /\ config \in [multiMainEnabled : BOOLEAN]
  /\ nextUuid = InitialVersionId + 1
  /\ calls = 0
  /\ pc = [p \in Procs |-> "idle"]
  /\ args = [p \in Procs |-> NoArgs]
  /\ local = [p \in Procs |-> NoLocal]
  /\ result = [p \in Procs |-> Pending]
  /\ log = [p \in Procs |-> <<>>]
  /\ sent = [p \in Procs |-> <<>>]
  /\ call = [p \in Procs |-> NoCall]

PinnedOff ==
  /\ pinnedPc = "off"
  /\ pinnedInput = NoPinnedInput
  /\ pinnedResult = NullNode

StaticOff ==
  /\ staticPc = "off"
  /\ staticInput = NoStaticWorkflow
  /\ staticWorkflow = NoStaticWorkflow
  /\ staticStored = NoStaticWorkflow.staticData
  /\ staticLog = <<>>

CredentialsOff ==
  /\ credentials = [id \in CredentialIds |-> NoCredential]
  /\ credentialRequests = 0
  /\ credentialResponse = NoCredentialResponse

CompressionOff ==
  /\ compressionPc = "off"
  /\ compressionInput = NoCompressionInput
  /\ compressionI = 0
  /\ returnData = <<>>
  /\ compressionResult = "pending"

RunOff ==
  /\ runPc = "off"
  /\ runInput = NoRunInput
  /\ runStarted = <<>>
  /\ runResult = NoRunResult

Init ==
  /\ InitService
  /\ PinnedOff
  /\ StaticOff
  /\ RunOff
  /\ CompressionOff
  /\ CredentialsOff

Next ==
  \E p \in Procs :
    \/ UpdateFindShared(p)
    \/ UpdateHook(p)
    \/ UpdateRemove(p)
    \/ UpdateValidate(p)
    \/ UpdatePersist(p)
    \/ UpdateTags(p)
    \/ UpdateHistory(p)
    \/ UpdateFindUpdated(p)
    \/ UpdateAfterHook(p)
    \/ UpdateActivateHook(p)
    \/ UpdateAdd(p)
    \/ UpdateRollback(p)
    \/ UpdateBroadcast(p)
    \/ DeleteHook(p)
    \/ DeleteFindShared(p)
    \/ DeleteRemove(p)
    \/ DeleteFindExecutions(p)
    \/ DeleteRow(p)
    \/ DeleteBinaryData(p)
    \/ DeleteAfterHook(p)
    \/ Return(p)

Spec == Init /\ [][Next]_vars

\* update and delete at rest: no call is made.
ServiceAtRest ==
  /\ workflowRepository =
       [exists |-> TRUE, active |-> FALSE, versionId |-> InitialVersionId,
        name |-> "original", settings |-> {}]
  /\ activeWorkflows = {}
  /\ tagMappings = {}
  /\ workflowHistory = {InitialVersionId}
  /\ executions = {}
  /\ binaryData = {}
  /\ config = [multiMainEnabled |-> FALSE]
  /\ nextUuid = InitialVersionId + 1
  /\ calls = 0
  /\ pc = [p \in Procs |-> "idle"]
  /\ args = [p \in Procs |-> NoArgs]
  /\ local = [p \in Procs |-> NoLocal]
  /\ result = [p \in Procs |-> Pending]
  /\ log = [p \in Procs |-> <<>>]
  /\ sent = [p \in Procs |-> <<>>]
  /\ call = [p \in Procs |-> NoCall]

\* findPinnedTrigger on every workflow of the three nodes, with at most
\* MaxConnections connections, at most one node disabled, and every
\* startNodes and pinData.
InitPinned ==
  /\ ServiceAtRest
  /\ StaticOff
  /\ RunOff
  /\ CompressionOff
  /\ CredentialsOff
  /\ pinnedPc = "call"
  /\ pinnedResult = NullNode
  /\ \E types \in [1..Len(NodeNames) -> NodeTypes],
        disabled \in {d \in SUBSET (1..Len(NodeNames)) : Cardinality(d) <= 1},
        connections \in {c \in SUBSET AllConnections :
                           Cardinality(c) <= MaxConnections},
        startNodes \in StartNodesChoices,
        pinData \in PinDataChoices :
       pinnedInput =
         [workflow |->
            [nodes |-> [i \in 1..Len(NodeNames) |->
                          [name |-> NodeNames[i], type |-> types[i],
                           disabled |-> i \in disabled]],
             connections |-> connections],
          startNodes |-> startNodes,
          pinData |-> pinData]

NextPinned == FindPinnedTrigger

SpecPinned == InitPinned /\ [][NextPinned]_vars

\* saveStaticData on every workflow: each value of __dataChanged, a valid
\* or an invalid id, each static data, over each stored static data.
InitStatic ==
  /\ ServiceAtRest
  /\ PinnedOff
  /\ RunOff
  /\ CompressionOff
  /\ CredentialsOff
  /\ staticPc = "call"
  /\ staticLog = <<>>
  /\ \E idValid \in BOOLEAN, dataChanged \in DataChangedValues,
        value \in StaticValues :
       /\ staticInput =
            [idValid |-> idValid,
             staticData |-> [dataChanged |-> dataChanged, value |-> value]]
       /\ staticWorkflow = staticInput
  /\ \E value \in StaticValues :
       staticStored = [dataChanged |-> "false", value |-> value]

NextStatic == SaveStaticData \/ SaveStaticDataById

SpecStatic == InitStatic /\ [][NextStatic]_vars

\* Connections a workflow run manually may hold in one run of the check.
MaxRunConnections == 1

RunNodeTypes == { <<"W", "e", "b", "h", "o", "o", "k">>, <<"s", "e", "t">> }

RunDataChoices ==
  {[given |-> FALSE, names |-> {}], [given |-> TRUE, names |-> {}],
   [given |-> TRUE, names |-> {NodeNames[1]}],
   [given |-> TRUE, names |-> {NodeNames[2], NodeNames[3]}]}

\* runManually on every workflow of the three nodes, each a Webhook or a
\* set node, with at most MaxRunConnections connections, and every
\* startNodes, pinData, runData and destinationNode.
InitRun ==
  /\ ServiceAtRest
  /\ StaticOff
  /\ CompressionOff
  /\ CredentialsOff
  /\ pinnedPc = "off"
  /\ pinnedResult = NullNode
  /\ runPc = "call"
  /\ runStarted = <<>>
  /\ runResult = NoRunResult
  /\ \E types \in [1..Len(NodeNames) -> RunNodeTypes],
        connections \in {c \in SUBSET AllConnections :
                           Cardinality(c) <= MaxRunConnections},
        startNodes \in StartNodesChoices,
        pinData \in PinDataChoices :
       pinnedInput =
         [workflow |->
            [nodes |-> [i \in 1..Len(NodeNames) |->
                          [name |-> NodeNames[i], type |-> types[i],
                           disabled |-> FALSE]],
             connections |-> connections],
          startNodes |-> startNodes,
          pinData |-> pinData]
  /\ \E runData \in RunDataChoices, destinationNode \in BOOLEAN,
        active \in BOOLEAN :
       runInput = [runData |-> runData, destinationNode |-> destinationNode,
                   active |-> active]

NextRun == RunManually \/ RunNeedsWebhook \/ RunStart

SpecRun == InitRun /\ [][NextRun]_vars

ItemJsons == {"j1", "j2"}

CompressionItems ==
  UNION { [1..n -> [json : ItemJsons, files : [1..f -> FileKinds]]] :
            n \in 0..MaxItems, f \in 1..MaxFields }

\* Compression.execute on up to MaxItems items, each with any binary data
\* under each of up to MaxFields listed names, for each operation, each
\* outputFormat (the default '' among them) and continueOnFail on or off.
InitCompression ==
  /\ ServiceAtRest
  /\ PinnedOff
  /\ StaticOff
  /\ RunOff
  /\ CredentialsOff
  /\ compressionPc = "call"
  /\ compressionI = 0
  /\ returnData = <<>>
  /\ compressionResult = "pending"
  /\ \E items \in CompressionItems, operation \in {"compress", "decompress"},
        outputFormat \in {"", "zip", "gzip"}, continueOnFail \in BOOLEAN :
       /\ \A a, b \in 1..Len(items) : Len(items[a].files) = Len(items[b].files)
       /\ compressionInput =
            [items |-> items, operation |-> operation,
             outputFormat |-> outputFormat, continueOnFail |-> continueOnFail]

NextCompression == CompressionExecute \/ CompressionItem \/ CompressionReturn

SpecCompression == InitCompression /\ [][NextCompression]_vars

\* Two callers of update whose calls may overlap.
Callers == {"p1", "p2"}

InitConcurrent ==
  /\ workflowRepository \in
       {[exists |-> TRUE, active |-> a, versionId |-> InitialVersionId,
         name |-> "original", settings |-> {}] : a \in BOOLEAN}
  /\ activeWorkflows = IF workflowRepository.active THEN {workflowId} ELSE {}
  /\ tagMappings = {}
  /\ workflowHistory = {InitialVersionId}
  /\ executions = {}
  /\ binaryData = {}
  /\ config = [multiMainEnabled |-> FALSE]
  /\ nextUuid = InitialVersionId + 1
  /\ calls = 0
  /\ pc = [p \in Callers |-> "idle"]
  /\ args = [p \in Callers |-> NoArgs]
  /\ local = [p \in Callers |-> NoLocal]
  /\ result = [p \in Callers |-> Pending]
  /\ log = [p \in Callers |-> <<>>]
  /\ sent = [p \in Callers |-> <<>>]
  /\ call = [p \in Callers |-> NoCall]
  /\ PinnedOff
  /\ StaticOff
  /\ RunOff
  /\ CompressionOff
  /\ CredentialsOff

NextConcurrent ==
  \E p \in Callers :
    \/ UpdateFindSharedConcurrently(p)
    \/ UpdateHook(p)
    \/ UpdateRemove(p)
    \/ UpdateValidate(p)
    \/ UpdatePersist(p)
    \/ UpdateTags(p)
    \/ UpdateHistory(p)
    \/ UpdateFindUpdated(p)
    \/ UpdateAfterHook(p)
    \/ UpdateActivateHook(p)
    \/ UpdateAdd(p)
    \/ UpdateRollback(p)
    \/ UpdateBroadcast(p)

SpecConcurrent == InitConcurrent /\ [][NextConcurrent]_vars

\* The credentials saved before the requests: each of the ids saved for one
\* of the users under the name credentialPayload() gave it, or not saved.
InitCredentials ==
  /\ ServiceAtRest
  /\ PinnedOff
  /\ StaticOff
  /\ RunOff
  /\ CompressionOff
  /\ credentials \in
       [CredentialIds ->
          {NoCredential} \cup
          {[exists |-> TRUE, owner |-> user, name |-> "n0"] : user \in CredentialUsers}]
  /\ credentialRequests = 0
  /\ credentialResponse = NoCredentialResponse

NextCredentials == DeleteCredential \/ PatchCredential

SpecCredentials == InitCredentials /\ [][NextCredentials]_vars


\* ------------------------------------------------------------------ claims

\* The positions of an event in a log.
Positions(events, event) == { i \in 1..Len(events) : events[i] = event }

Occurs(events, event) == Positions(events, event) # {}

\* Every occurrence of the event b in the log has an a before it.
Precedes(events, a, b) ==
  \A i \in Positions(events, b) : \E j \in Positions(events, a) : j < i

RepositoryWrite == "workflowRepository.update"
RegistryRemove == "activeWorkflowRunner.remove"
RegistryAdd == "activeWorkflowRunner.add"
Broadcast == "broadcastWorkflowActiveStateChanged"

\* C1: when the sharing lookup of update finds no record for the user, the
\* call ends at once with NotFoundError: the store (workflow row, tag
\* mappings, history, active workflows, executions, binary data) is as
\* before, and the call has run no hook and sent no broadcast.
C1_NoPermissionNoEffect ==
  [][\A p \in Procs :
       ( /\ pc[p] = "idle"
         /\ call'[p].op = "update"
         /\ ~findShared(call'[p].user, "workflow:update", call'[p].roles).exists )
       => /\ pc'[p] = "done"
          /\ result'[p].status = "thrown"
          /\ result'[p].error = "NotFoundError"
          /\ UNCHANGED store
          /\ log'[p] = <<>>
          /\ sent'[p] = <<>>]_vars

\* C1 witness: eve, who has no sharing record, got NotFoundError for a
\* workflow that is stored.
C1_Witness ==
  \E p \in Procs :
    /\ pc[p] = "done"
    /\ call[p].op = "update"
    /\ call[p].user = "eve"
    /\ workflowRepository.exists
    /\ result[p].error = "NotFoundError"

\* C2: when forceSave is not set and the payload's versionId is a non-empty
\* string other than the stored versionId, the update of a user the lookup
\* admits ends at once with BadRequestError, code 100: the store is as
\* before (an active workflow stays in the active workflows), no hook has
\* run and no broadcast was sent.
C2_VersionConflictNoWrite ==
  [][\A p \in Procs :
       ( /\ pc[p] = "idle"
         /\ call'[p].op = "update"
         /\ findShared(call'[p].user, "workflow:update", call'[p].roles).exists
         /\ ~call'[p].forceSave
         /\ "versionId" \in call'[p].workflow.keys
         /\ call'[p].workflow.versionId # EmptyVersionId
         /\ call'[p].workflow.versionId # workflowRepository.versionId )
       => /\ pc'[p] = "done"
          /\ result'[p].status = "thrown"
          /\ result'[p].error = "BadRequestError"
          /\ result'[p].code = VersionConflictCode
          /\ UNCHANGED store
          /\ log'[p] = <<>>
          /\ sent'[p] = <<>>]_vars

\* C2 witness: a version conflict on a workflow that is stored as active
\* and is among the active workflows.
C2_Witness ==
  \E p \in Procs :
    /\ pc[p] = "done"
    /\ call[p].op = "update"
    /\ result[p].code = VersionConflictCode
    /\ ~call[p].forceSave
    /\ call[p].workflow.versionId = InitialVersionId
    /\ workflowRepository.versionId # InitialVersionId
    /\ workflowRepository.active
    /\ workflowId \in activeWorkflows


\* C3 as stated: in a run of update no change of the active workflows
\* (neither a removal nor an addition) and no broadcast comes before the
\* repository write of the workflow.
C3_NoRegistryChangeBeforeWrite ==
  \A p \in Procs :
    call[p].op = "update" =>
      /\ Precedes(log[p], RepositoryWrite, RegistryRemove)
      /\ Precedes(log[p], RepositoryWrite, RegistryAdd)
      /\ Precedes(log[p], RepositoryWrite, Broadcast)

\* C3 amended: a run of update that fails the permission check or the
\* version check has had no effect at all; no addition to the active
\* workflows and no broadcast comes before the repository write, and the
\* broadcast comes after the addition; the removal of a workflow stored as
\* active from the active workflows does come before the repository write.
C3_ActivationAfterWrite ==
  \A p \in Procs :
    call[p].op = "update" =>
      /\ (result[p].error = "NotFoundError" \/ result[p].code = VersionConflictCode)
           => log[p] = <<>>
      /\ Precedes(log[p], RepositoryWrite, RegistryAdd)
      /\ Precedes(log[p], RepositoryWrite, Broadcast)
      /\ \A i \in Positions(log[p], Broadcast) :
           \A j \in Positions(log[p], RegistryAdd) : j < i
      /\ \A i \in Positions(log[p], RegistryRemove) :
           \A j \in Positions(log[p], RepositoryWrite) : i < j

\* C3 witness: an update returned after a removal, the repository write, the
\* addition and the broadcast.
C3_Witness ==
  \E p \in Procs :
    /\ pc[p] = "done"
    /\ call[p].op = "update"
    /\ result[p].status = "returned"
    /\ Occurs(log[p], RegistryRemove)
    /\ Occurs(log[p], RepositoryWrite)
    /\ Occurs(log[p], RegistryAdd)
    /\ Occurs(log[p], Broadcast)

\* C4: when the activation fails during update (the 'workflow.activate'
\* hook or activeWorkflowRunner.add throws), the call ends with the workflow
\* stored inactive under the versionId it had before the call and absent
\* from the active workflows, and fails with a BadRequestError whose message
\* is the error's description when the error is a NodeApiError that has one,
\* and the error's message otherwise.
C4_ActivationFailureRollsBack ==
  \A p \in Procs :
    (pc[p] = "done" /\ call[p].op = "update" /\ local[p].error # NoError) =>
      /\ workflowRepository.exists
      /\ ~workflowRepository.active
      /\ workflowRepository.versionId = call[p].before.workflowRepository.versionId
      /\ workflowId \notin activeWorkflows
      /\ result[p].status = "thrown"
      /\ result[p].error = "BadRequestError"
      /\ result[p].message =
           IF local[p].error.type = "NodeApiError" /\ local[p].error.description # ""
           THEN local[p].error.description
           ELSE local[p].error.message

\* C4 witness: the activation of a renamed workflow that was active failed
\* with a NodeApiError, after the removal and the repository write.
C4_Witness ==
  \E p \in Procs :
    /\ pc[p] = "done"
    /\ call[p].op = "update"
    /\ local[p].error = ApiErrorWithDescription
    /\ call[p].before.workflowRepository.active
    /\ "name" \in call[p].workflow.keys
    /\ workflowRepository.name = "renamed"
    /\ Occurs(log[p], RegistryRemove)
    /\ Occurs(log[p], RepositoryWrite)

\* C5 as stated: an update of a workflow stored as active removes it from
\* the active workflows before the repository write and, whenever the update
\* returns, has re-added it after the write.
C5_AlwaysReadded ==
  \A p \in Procs :
    (call[p].op = "update" /\ call[p].before.workflowRepository.active) =>
      /\ Precedes(log[p], RegistryRemove, RepositoryWrite)
      /\ (pc[p] = "done" /\ result[p].status = "returned") =>
           /\ Occurs(log[p], RegistryAdd)
           /\ Precedes(log[p], RepositoryWrite, RegistryAdd)

\* C5 amended: an update of a workflow stored as active removes it from the
\* active workflows before the repository write; when the update returns and
\* the row it read back is active, it has re-added the workflow after the
\* write and the workflow is among the active workflows; when the row read
\* back is inactive, the workflow is not re-added.
C5_ReaddedWhenStillActive ==
  \A p \in Procs :
    (call[p].op = "update" /\ call[p].before.workflowRepository.active) =>
      /\ Precedes(log[p], RegistryRemove, RepositoryWrite)
      /\ (pc[p] = "done" /\ result[p].status = "returned") =>
           /\ Occurs(log[p], RepositoryWrite)
           /\ result[p].value.active =>
                /\ Occurs(log[p], RegistryAdd)
                /\ Precedes(log[p], RepositoryWrite, RegistryAdd)
                /\ workflowId \in activeWorkflows
           /\ ~result[p].value.active =>
                /\ ~Occurs(log[p], RegistryAdd)
                /\ workflowId \notin activeWorkflows

\* C5 witness: an update of an active workflow returned it active, removed
\* and re-added.
C5_Witness ==
  \E p \in Procs :
    /\ pc[p] = "done"
    /\ call[p].op = "update"
    /\ call[p].before.workflowRepository.active
    /\ result[p].status = "returned"
    /\ result[p].value.active
    /\ Occurs(log[p], RegistryRemove)
    /\ Occurs(log[p], RegistryAdd)
    /\ workflowId \in activeWorkflows

\* C6: after an update that returned, the stored versionId is fresh (neither
\* the versionId stored before nor the payload's, and not in the history
\* before) exactly when the payload has a property other than id, versionId
\* and active; a payload of exactly those three leaves the stored versionId
\* equal to the payload's.
C6_FreshVersionId ==
  \A p \in Procs :
    (pc[p] = "done" /\ call[p].op = "update" /\ result[p].status = "returned") =>
      LET payload == call[p].workflow
          before == call[p].before.workflowRepository.versionId
          payloadVersionId == IF "versionId" \in payload.keys
                              THEN payload.versionId ELSE UndefinedVersionId
          fresh == workflowRepository.versionId \notin {before, payloadVersionId}
      IN /\ fresh <=> (payload.keys \ {"id", "versionId", "active"}) # {}
         /\ fresh => workflowRepository.versionId \notin
                       call[p].before.workflowHistory
         /\ payload.keys = {"id", "versionId", "active"}
              => workflowRepository.versionId = payload.versionId

\* C6 witness: a forced save of id, versionId and active stored the
\* payload's versionId, which was not the stored one.
C6_Witness ==
  \E p \in Procs :
    /\ pc[p] = "done"
    /\ call[p].op = "update"
    /\ result[p].status = "returned"
    /\ call[p].workflow.keys = {"id", "versionId", "active"}
    /\ call[p].workflow.versionId # call[p].before.workflowRepository.versionId
    /\ workflowRepository.versionId = call[p].workflow.versionId


\* The indexes of the nodes the claims call pinned triggers: not disabled,
\* with an entry in pinData, of a type that contains 'trigger' or 'webhook'
\* whatever the case of its letters.
ContainsIgnoringCase(str, word) ==
  \E k \in 0..(Len(str) - Len(word)) :
    \A j \in 1..Len(word) : LowerChar(str[k + j]) = LowerChar(word[j])

PinnedTriggerIndexes ==
  LET nodes == pinnedInput.workflow.nodes
  IN { i \in 1..Len(nodes) :
         /\ ~nodes[i].disabled
         /\ nodes[i].name \in pinnedInput.pinData.names
         /\ \/ ContainsIgnoringCase(nodes[i].type, <<"t", "r", "i", "g", "g", "e", "r">>)
            \/ ContainsIgnoringCase(nodes[i].type, <<"w", "e", "b", "h", "o", "o", "k">>) }

FirstOf(indexes) == CHOOSE i \in indexes : \A j \in indexes : i <= j

\* C7: in a full execution (startNodes empty, pinData given)
\* findPinnedTrigger returns the first pinned trigger in the order of
\* workflow.nodes, and null when there is none.
C7_FullExecutionFirstPinnedTrigger ==
  ( /\ pinnedPc = "done"
    /\ pinnedInput.pinData.given
    /\ pinnedInput.startNodes.given
    /\ pinnedInput.startNodes.names = <<>> )
  => pinnedResult =
       IF PinnedTriggerIndexes = {} THEN NullNode
       ELSE pinnedInput.workflow.nodes[FirstOf(PinnedTriggerIndexes)]

\* C7 witness: a full execution returned the second node, a pinned Webhook,
\* the first node being pinned but no trigger.
C7_Witness ==
  /\ pinnedPc = "done"
  /\ pinnedInput.startNodes.given
  /\ pinnedInput.startNodes.names = <<>>
  /\ pinnedInput.pinData.names = {"A", "B", "C"}
  /\ pinnedInput.workflow.nodes[1].type = <<"s", "e", "t">>
  /\ pinnedInput.workflow.nodes[2].type = <<"W", "e", "b", "h", "o", "o", "k">>
  /\ pinnedResult = pinnedInput.workflow.nodes[2]

\* C8 as stated: in a partial execution (startNodes non-empty, first entry
\* s) findPinnedTrigger returns the first pinned trigger, in the order of
\* workflow.nodes, that leads to s; when none leads to s it returns s itself
\* if s is a pinned trigger, and null otherwise.
C8_PartialExecutionFirstLeadingTrigger ==
  ( /\ pinnedPc = "done"
    /\ pinnedInput.pinData.given
    /\ pinnedInput.startNodes.given
    /\ pinnedInput.startNodes.names # <<>> )
  => LET nodes == pinnedInput.workflow.nodes
         s == pinnedInput.startNodes.names[1]
         leading == { i \in PinnedTriggerIndexes :
                        nodes[i].name \in
                          getParentNodes(pinnedInput.workflow.connections, s) }
         itself == { i \in PinnedTriggerIndexes : nodes[i].name = s }
     IN pinnedResult =
          IF leading # {} THEN nodes[FirstOf(leading)]
          ELSE IF itself # {} THEN nodes[FirstOf(itself)]
          ELSE NullNode

\* C9 as stated: a delete by a user with neither an owner sharing record
\* nor the global scope workflow:delete returns undefined and leaves the
\* store (workflow row, executions, binary data, active workflows) as it
\* was.
C9_UnauthorizedDeleteReturnsUndefined ==
  \A p \in Procs :
    ( /\ pc[p] = "done"
      /\ call[p].op = "delete"
      /\ ~hasGlobalScope(call[p].user, "workflow:delete")
      /\ SharingRole(call[p].user) # "owner" )
    => /\ result[p] = Returned(NullRow)
       /\ Snapshot = call[p].before

\* C10 as stated: in delete the permission check comes first: the
\* 'workflow.delete' hook, like every other effect of delete, runs only for
\* a user who is permitted to delete the workflow.
C10_DeleteHookOnlyForPermitted ==
  \A p \in Procs :
    (call[p].op = "delete" /\ log[p] # <<>>) =>
      /\ call[p].before.workflowRepository.exists
      /\ \/ hasGlobalScope(call[p].user, "workflow:delete")
         \/ SharingRole(call[p].user) = "owner"


\* C11: a delete that returns the workflow leaves it neither stored nor in
\* the active workflows, with the binary data of every execution it found
\* deleted; if the workflow was stored as active, activeWorkflowRunner.remove
\* ran, and ran before the deletion of the row.
C11_DeactivatedThenDeleted ==
  \A p \in Procs :
    ( /\ pc[p] = "done"
      /\ call[p].op = "delete"
      /\ result[p].status = "returned"
      /\ result[p].value.exists )
    => /\ ~workflowRepository.exists
       /\ workflowId \notin activeWorkflows
       /\ binaryData \cap call[p].before.executions = {}
       /\ Occurs(log[p], "workflowRepository.delete")
       /\ call[p].before.workflowRepository.active =>
            /\ Occurs(log[p], "activeWorkflowRunner.remove")
            /\ Precedes(log[p], "activeWorkflowRunner.remove",
                        "workflowRepository.delete")

\* C11 witness: the owner deleted a workflow that was stored as active, in
\* the active workflows, with executions holding binary data.
C11_Witness ==
  \E p \in Procs :
    /\ pc[p] = "done"
    /\ call[p].op = "delete"
    /\ call[p].user = "alice"
    /\ result[p].status = "returned"
    /\ result[p].value.active
    /\ workflowId \in call[p].before.activeWorkflows
    /\ call[p].before.binaryData # {}
    /\ binaryData = {}


\* C12: when saveStaticData has ended, workflowRepository.update was called
\* if and only if __dataChanged was true and the workflow id valid; a write
\* that did not fail has stored the static data and left __dataChanged
\* false; without a call of update the stored static data and the workflow
\* are as they were.
C12_SavesStaticDataIfChanged ==
  staticPc = "done" =>
    LET written == Occurs(staticLog, "workflowRepository.update")
        failed == Occurs(staticLog, "logger.error")
    IN /\ written <=> ( /\ staticInput.staticData.dataChanged = "true"
                        /\ staticInput.idValid )
       /\ (written /\ ~failed) =>
            /\ staticWorkflow.staticData.dataChanged = "false"
            /\ staticStored.value = staticInput.staticData.value
       /\ ~written => staticWorkflow = staticInput
       /\ ~DataChanged(staticInput) => ~written

\* C12 witness: changed static data of a workflow with a valid id was
\* written over other static data.
C12_Witness ==
  /\ staticPc = "done"
  /\ staticInput.staticData = [dataChanged |-> "true", value |-> "v2"]
  /\ staticInput.idValid
  /\ staticStored.value = "v2"
  /\ staticLog = <<"workflowRepository.update">>
  /\ staticWorkflow.staticData.dataChanged = "false"


\* What C13 says of the call that returned {waitingForWebhook: true}: no
\* pinned trigger was found, and runData, a non-empty startNodes and
\* destinationNode were not all given.
WaitedOnlyWhenAllowed ==
  runResult = WaitingForWebhook =>
    /\ runStarted = <<>>
    /\ pinnedResult = NullNode
    /\ ~( /\ runInput.runData.given
          /\ pinnedInput.startNodes.given
          /\ pinnedInput.startNodes.names # <<>>
          /\ runInput.destinationNode )

StartedOneInactive ==
  runResult = ExecutionStarted =>
    /\ Len(runStarted) = 1
    /\ ~runStarted[1].active

\* C13 as stated: runManually ends either returning {waitingForWebhook:
\* true} with no execution started, or returning the executionId of the one
\* execution it started, with workflowData.active false; it waits only
\* without a pinned trigger, outside a partial run.
C13_TwoOutcomes ==
  runPc = "done" =>
    /\ runResult \in {WaitingForWebhook, ExecutionStarted}
    /\ WaitedOnlyWhenAllowed
    /\ StartedOneInactive

\* C13, amended: runManually ends returning {waitingForWebhook: true} with
\* no execution started, or returning the executionId of the one execution
\* it started, with workflowData.active false, or rejecting with the error
\* of getBase, needsWebhookData or workflowRunner.run; it waits only
\* without a pinned trigger, outside a partial run, and never starts more
\* than one execution.
C13_ThreeOutcomes ==
  runPc = "done" =>
    /\ runResult \in {WaitingForWebhook, ExecutionStarted, RunRejected}
    /\ WaitedOnlyWhenAllowed
    /\ StartedOneInactive
    /\ Len(runStarted) <= 1

\* C13 witness: a full execution of a workflow stored as active, without
\* pinned trigger, is waiting for the webhook.
C13_Witness ==
  /\ runPc = "done"
  /\ runResult = WaitingForWebhook
  /\ runInput.active
  /\ pinnedInput.startNodes = [given |-> TRUE, names |-> <<>>]
  /\ pinnedInput.pinData.given
  /\ runStarted = <<>>

\* C18: the execution runManually starts has startNodes equal to the list
\* of the one name of the pinned trigger when findPinnedTrigger returned a
\* trigger that has no entry in runData, and equal to the startNodes of the
\* caller in every other case.
C18_StartsFromPinnedTrigger ==
  (runPc = "done" /\ runStarted # <<>>) =>
    runStarted[1].startNodes =
      IF /\ pinnedResult # NullNode
         /\ ~( /\ runInput.runData.given
               /\ pinnedResult.name \in runInput.runData.names )
      THEN [given |-> TRUE, names |-> <<pinnedResult.name>>]
      ELSE pinnedInput.startNodes

\* C18 witness: a partial execution that starts at C, with run data for C
\* and none for the pinned Webhook A, was started from A.
C18_Witness ==
  /\ runPc = "done"
  /\ runResult = ExecutionStarted
  /\ pinnedInput.startNodes.names = <<"C">>
  /\ pinnedResult.name = "A"
  /\ runInput.runData = [given |-> TRUE, names |-> {"B", "C"}]
  /\ runStarted[1].startNodes.names = <<"A">>


\* C14 as stated: when execute returns and no item failed, the list it
\* returns has one item for each input item, in the order of the input, with
\* the json of the input item and its index as pairedItem.item, for both
\* operations and any outputFormat.
C14_OneOutputPerInput ==
  ( /\ compressionPc = "done"
    /\ compressionResult = "returned"
    /\ \A n \in 1..Len(compressionInput.items) :
         ~AssertBinaryDataThrows(compressionInput.items[n].files) ) =>
    /\ Len(returnData) = Len(compressionInput.items)
    /\ \A n \in 1..Len(returnData) :
         /\ returnData[n].json = compressionInput.items[n].json
         /\ returnData[n].pairedItem = n - 1


\* C15: an update that returns in a multi-main setup has sent one
\* broadcast, as its last effect, after the repository write and the
\* addition to the active workflows, with the active flag stored before the
\* update as oldState and the one stored after it as newState; an update
\* that throws, and one outside a multi-main setup, has sent none.
C15_OneBroadcastPerSuccessfulUpdate ==
  \A p \in Procs :
    (pc[p] = "done" /\ call[p].op = "update") =>
      IF result[p].status = "returned" /\ config.multiMainEnabled
      THEN /\ Len(sent[p]) = 1
           /\ sent[p][1].oldState = call[p].before.workflowRepository.active
           /\ sent[p][1].newState = workflowRepository.active
           /\ Positions(log[p], Broadcast) = {Len(log[p])}
           /\ Occurs(log[p], RepositoryWrite)
           /\ workflowRepository.active => Occurs(log[p], RegistryAdd)
      ELSE /\ sent[p] = <<>>
           /\ ~Occurs(log[p], Broadcast)

\* C15 witness: in a multi-main setup the update that activated the
\* workflow broadcast the change from inactive to active.
C15_Witness ==
  \E p \in Procs :
    /\ pc[p] = "done"
    /\ call[p].op = "update"
    /\ config.multiMainEnabled
    /\ result[p].status = "returned"
    /\ ~call[p].before.workflowRepository.active
    /\ sent[p] # <<>>
    /\ sent[p][1].oldState = FALSE
    /\ sent[p][1].newState = TRUE


\* C16: a DELETE or PATCH of /credentials/:id by a member for a credential
\* another user owns is answered 404 and leaves the credentials as they
\* were; one by the instance owner for any credential, or by any user for
\* their own, is answered 200 and has deleted or updated that credential
\* and no other.
C16_CredentialAccessFollowsOwnership ==
  LET r == credentialResponse
      stored == r.before[r.id]
  IN (credentialRequests > 0 /\ r.id \in CredentialIds /\ r.before[r.id].exists) =>
       IF r.user # "owner" /\ stored.owner # r.user
       THEN /\ r.statusCode = StatusNotFound
            /\ credentials = r.before
       ELSE /\ r.statusCode = StatusOk
            /\ \A id \in CredentialIds \ {r.id} : credentials[id] = r.before[id]
            /\ r.method = "DELETE" => ~credentials[r.id].exists
            /\ r.method = "PATCH" =>
                 credentials[r.id] = [stored EXCEPT !.name = r.name]

\* C16 witness: a member asked to delete the credential of another member
\* and got 404, after the instance owner had updated that credential.
C16_Witness ==
  /\ credentialRequests = 2
  /\ credentialResponse.method = "DELETE"
  /\ credentialResponse.user = "member1"
  /\ credentialResponse.id = "c1"
  /\ credentialResponse.statusCode = StatusNotFound
  /\ credentials["c1"] = [exists |-> TRUE, owner |-> "member2", name |-> "n1"]


\* C17: when forceSave is set, or the payload's versionId is the empty
\* string, the update of a user the lookup admits passes the version check
\* whatever versionId is stored: it does not end with the version-conflict
\* error and goes on to the steps that lead to the repository write.
C17_ForcedSaveNeverConflicts ==
  [][\A p \in Procs :
       ( /\ pc[p] = "idle"
         /\ call'[p].op = "update"
         /\ findShared(call'[p].user, "workflow:update", call'[p].roles).exists
         /\ \/ call'[p].forceSave
            \/ VersionIdOf(call'[p].workflow) = EmptyVersionId )
       => /\ pc'[p] = "u_hook"
          /\ result'[p] = Pending
          /\ local'[p].shared = workflowRepository]_vars

\* C17 witness: a forced update that carries a versionId other than the
\* stored one, or none, has passed the version check.
C17_Witness ==
  \E p \in Procs :
    /\ pc[p] = "u_hook"
    /\ call[p].forceSave
    /\ VersionIdOf(call[p].workflow) \notin {EmptyVersionId, workflowRepository.versionId}

\* C19 as stated: of two non-forced updates that both rename the workflow
\* and both carry the versionId that was stored when each of them began,
\* at most one returns, however their steps interleave.
C19_AtMostOneConcurrentUpdateSucceeds ==
  \A p, q \in DOMAIN pc :
    ( /\ p # q
      /\ pc[p] = "done" /\ pc[q] = "done"
      /\ call[p].op = "update" /\ call[q].op = "update"
      /\ "name" \in call[p].workflow.keys
      /\ "name" \in call[q].workflow.keys
      /\ VersionIdOf(call[p].workflow) = InitialVersionId
      /\ VersionIdOf(call[q].workflow) = InitialVersionId
      /\ call[p].before.workflowRepository.versionId = InitialVersionId
      /\ call[q].before.workflowRepository.versionId = InitialVersionId
      /\ result[p].status = "returned" )
    => result[q].status # "returned"

\* C20 as stated: if the workflow was among the active workflows exactly
\* when it was stored as active before a call of update, the same holds
\* when the call has ended, whether it returned or threw, at whatever step.
C20_RegistryConsistentAfterUpdate ==
  \A p \in Procs :
    ( /\ pc[p] = "done"
      /\ call[p].op = "update"
      /\ (workflowId \in call[p].before.activeWorkflows)
           <=> call[p].before.workflowRepository.active )
    => ( (workflowId \in activeWorkflows) <=> workflowRepository.active )


\* C21 as stated: whenever a call of update has changed the stored content
\* of the workflow (its name or its settings), the stored versionId differs
\* from the one stored before the call, also when the call ended in the
\* rollback of a failed activation.
C21_VersionIdIdentifiesContent ==
  \A p \in Procs :
    ( /\ pc[p] = "done"
      /\ call[p].op = "update"
      /\ \/ workflowRepository.name # call[p].before.workflowRepository.name
         \/ workflowRepository.settings # call[p].before.workflowRepository.settings )
    => workflowRepository.versionId # call[p].before.workflowRepository.versionId


\* The files the decompress operation extracts from the listed binary
\* fields of an item: the entries of each zip archive whose name does not
\* contain '__MACOSX', and the one file of each gz file.
ExtractedFiles(files) ==
  UNION { { <<k, e>> : e \in { i \in 1..Len(EntriesOf(files[k])) :
                                  ~includes(EntriesOf(files[k])[i], MacOsxMarker) } } :
            k \in { j \in 1..Len(files) : ExtensionOf(files[j]) = "zip" } }
    \cup { <<k, 0>> : k \in {j \in 1..Len(files) : ExtensionOf(files[j]) = "gz"} }

\* C22 as stated: when the decompress operation returns and no item
\* failed, each output item has as many binary fields as files were
\* extracted from its input item, for any mix of zip and gz inputs.
C22_EachExtractedFileInItsOwnField ==
  ( /\ compressionPc = "done"
    /\ compressionResult = "returned"
    /\ compressionInput.operation = "decompress"
    /\ \A n \in 1..Len(compressionInput.items) :
         ~AssertBinaryDataThrows(compressionInput.items[n].files) )
  => \A n \in 1..Len(returnData) :
       Cardinality(returnData[n].binary) =
         Cardinality(ExtractedFiles(compressionInput.items[n].files))


\* The positions of the input items whose processing throws.
FailingItems ==
  { n \in 1..Len(compressionInput.items) :
      AssertBinaryDataThrows(compressionInput.items[n].files) }

\* The output items paired with the input item at position n.
OutputsFor(n) == { m \in 1..Len(returnData) : returnData[m].pairedItem = n - 1 }

\* C23: when execute has ended with continueOnFail on, it has returned,
\* the loop has gone through every item, each failing item has exactly one
\* output item, the error item paired with it, and in the decompress
\* operation each other item has its own output item; with continueOnFail
\* off and some item failing, execute has thrown at the first failing item
\* and returned nothing.
C23_ContinueOnFail ==
  compressionPc = "done" =>
    IF compressionInput.continueOnFail
    THEN /\ compressionResult = "returned"
         /\ compressionI = Len(compressionInput.items)
         /\ \A n \in FailingItems :
              /\ Cardinality(OutputsFor(n)) = 1
              /\ \A m \in OutputsFor(n) :
                   returnData[m] = [json |-> "error", binary |-> {}, pairedItem |-> n - 1]
         /\ compressionInput.operation = "decompress" =>
              \A n \in (1..Len(compressionInput.items)) \ FailingItems :
                /\ Cardinality(OutputsFor(n)) = 1
                /\ \A m \in OutputsFor(n) :
                     returnData[m].json = compressionInput.items[n].json
    ELSE IF FailingItems = {}
    THEN compressionResult = "returned"
    ELSE /\ compressionResult = "thrown"
         /\ compressionI + 1 \in FailingItems
         /\ \A n \in FailingItems : compressionI + 1 <= n

\* C23 witness: with continueOnFail on, the first of two items failed and
\* the second one was decompressed after it.
C23_Witness ==
  /\ compressionPc = "done"
  /\ compressionResult = "returned"
  /\ compressionInput.continueOnFail
  /\ compressionInput.operation = "decompress"
  /\ Len(compressionInput.items) = 2
  /\ FailingItems = {1}
  /\ Len(returnData) = 2
  /\ returnData[1].json = "error"
  /\ returnData[2].binary # {}

====
